---- MODULE Spec2Model ----
(***************************************************************************)
(* A model of pwm.py: the DataclassDatabase document store (a JSON file    *)
(* holding a class tag and a name -> dataclass mapping), the Site and User *)
(* dataclasses, and the click commands built on them.                      *)
(*                                                                         *)
(* Values are tagged tuples, so that a conversion is never the identity:   *)
(*   <<"str", s>>            a string typed by the user                    *)
(*   <<"bytes", n>>          raw random bytes (os.urandom, a Fernet key)   *)
(*   <<"utf8", s>>           str.encode()                                  *)
(*   <<"pbkdf2", pw, salt>>  PBKDF2HMAC(...).derive(pw)                    *)
(*   <<"b64u", x>> <<"b64", x>>  base64 encodings                          *)
(*   <<"fernet", key, data>> a Fernet token                                *)
(*   <<"ascii", x>>          bytes.decode()                                *)
(***************************************************************************)
EXTENDS Integers, Sequences, FiniteSets, TLC

\* ------------------------------------------------------------------ bounds
NumNames == 2
NumInst == 2

\* ------------------------------------------------------------------ strings
\* Every string used as a JSON object key, in str's (code point) order:
\* json.dump(..., sort_keys=True) sorts object keys by it.
StrOrder ==
    <<"a", "b", "c", "encrypted_data_key", "login", "password", "salt", "username">>

Rank(s) == CHOOSE k \in 1..Len(StrOrder) : StrOrder[k] = s

NameList == <<"a", "b", "c">>

Names == {NameList[k] : k \in 1..NumNames}

Inst == 1..NumInst

Classes == {"Site", "User"}

\* database_path: the two the commands use, and one for a store of any class.
Paths == {"db", "sites", "users"}

\* ------------------------------------------------------------------ dataclasses
\* A dataclass instance is the tuple of its field values in declaration order.
SiteFields == <<"login", "password">>

UserFields == <<"username", "encrypted_data_key", "salt">>

Fields(class_) == IF class_ = "Site" THEN SiteFields ELSE UserFields

FieldIndex(class_, f) == CHOOSE k \in 1..Len(Fields(class_)) : Fields(class_)[k] = f

Field(class_, object_, f) == object_[FieldIndex(class_, f)]

Str(s) == <<"str", s>>

\* dataclasses.asdict: the (field, value) pairs in declaration order.
AsDict(class_, object_) ==
    [k \in 1..Len(Fields(class_)) |-> <<Fields(class_)[k], object_[k]>>]

\* ------------------------------------------------------------------ JSON
\* The pairs of a JSON object sorted by key (insertion sort on Rank).
RECURSIVE SortPairs(_)
SortPairs(pairs) ==
    IF pairs = <<>> THEN <<>>
    ELSE LET m == CHOOSE k \in 1..Len(pairs) :
                      \A j \in 1..Len(pairs) : Rank(pairs[k][1]) <= Rank(pairs[j][1])
             rest == [j \in 1..(Len(pairs) - 1) |->
                          IF j < m THEN pairs[j] ELSE pairs[j + 1]]
         IN  <<pairs[m]>> \o SortPairs(rest)

\* The names of a mapping as a sequence sorted by key.
RECURSIVE SortNames(_)
SortNames(S) ==
    IF S = {} THEN <<>>
    ELSE LET m == CHOOSE n \in S : \A o \in S : Rank(n) <= Rank(o)
         IN  <<m>> \o SortNames(S \ {m})

\* JSONDataclassEncoder.default + sort_keys: one dataclass as a JSON object.
EncodeObject(class_, object_) == SortPairs(AsDict(class_, object_))

\* A document is the sequence of tokens json.dump writes, in order:
\*   <<"{">>, <<"class", tag>>, <<"entry", name, pairs>>..., <<"}">>
\* ("class" sorts before "data"; the entries sorted by name).
JsonDump(database, class_) ==
    LET names == SortNames(DOMAIN database.data)
    IN  << <<"{">>, <<"class", database.class>> >>
        \o [k \in 1..Len(names) |->
               <<"entry", names[k], EncodeObject(class_, database.data[names[k]])>>]
        \o << <<"}">> >>

\* The content of a file that does not exist.
NoFile == << <<"ENOENT">> >>

\* json.load succeeds only on a complete document.
IsJson(text) ==
    /\ Len(text) >= 3
    /\ text[1] = <<"{">>
    /\ text[2][1] = "class"
    /\ text[Len(text)] = <<"}">>
    /\ \A k \in 3..(Len(text) - 1) : text[k][1] = "entry"

\* json.load: the parsed dict; an object's pairs keep the file's order.
JsonLoad(text) ==
    [class |-> text[2][2],
     data  |-> LET ks == 3..(Len(text) - 1)
               IN  [n \in {text[k][2] : k \in ks} |->
                       LET k == CHOOSE j \in ks : text[j][2] = n
                       IN  text[k][3]]]

\* class_(*object_as_dict.values()): the values of the pairs, by position.
FromValues(pairs) == [k \in 1..Len(pairs) |-> pairs[k][2]]

EmptyData == [n \in {} |-> <<>>]

\* ------------------------------------------------------------------ state
VARIABLES
    store,    \* store[i]: the DataclassDatabase object of process i, or NoStore
    files,    \* files[path]: the content of the file path + '.json'
    pending,  \* pending[i]: what process i has still to write of the file it opened
    pc,       \* pc[i]: where invocation i of the command line is
    session,  \* session[i]: "Locked" or "Unlocked"
    accounts, \* history: the passphrase and data key each account was created with
    last      \* history: the most recent call: who, what, and how it ended

vars == <<store, files, pending, pc, session, accounts, last>>

\* What the store's own operations leave alone.
cliVars == <<pc, session, accounts>>

\* self.database = None, self.n_entries = None
NoDatabase == [class |-> "None", data |-> EmptyData]

NoStore ==
    [alive |-> FALSE, class_ |-> "None", database_path |-> "None",
     database |-> NoDatabase, n_entries |-> -1]

\* before: the object's n_entries when the call was made.
\* echo: the lines a command printed.
NoCall ==
    [inst |-> 0, op |-> "none", name |-> "", class_ |-> "None", result |-> "ok",
     value |-> <<>>, before |-> -1, echo |-> <<>>]

Call(i, op, name, class_, result, value) ==
    [inst |-> i, op |-> op, name |-> name, class_ |-> class_, result |-> result,
     value |-> value, before |-> store[i].n_entries, echo |-> <<>>]

\* ------------------------------------------------------------------ DataclassDatabase
\* update_n_entries
UpdateNEntries(s) == [s EXCEPT !.n_entries = Cardinality(DOMAIN s.database.data)]

\* Mutant of Save: nothing is written.
SaveNothing(fs, s) == fs

\* save: open(path, 'w') and json.dump, as one step
Save(fs, s) == [fs EXCEPT ![s.database_path] = JsonDump(s.database, s.class_)]

\* __contains__
Contains(s, name) == name \in DOMAIN s.database.data

\* get: the guard of its raise
GetRaises(s, name) == ~Contains(s, name)

\* get: the value returned
GetValue(s, name) == s.database.data[name]

\* Mutant of NewRaises: the presence check is left out.
NewRaisesNever(s, name) == FALSE

\* new: the guard of its raise
NewRaises(s, name) == Contains(s, name)

\* new: self.database['data'][name] = instance; update_n_entries()
DbNew(s, name, instance) ==
    UpdateNEntries(
        [s EXCEPT !.database.data =
            [n \in (DOMAIN s.database.data) \cup {name} |->
                IF n = name THEN instance ELSE s.database.data[n]]])

\* Mutant of RemoveRaises: the presence check is left out.
RemoveRaisesNever(s, name) == FALSE

\* remove: the guard of its raise
RemoveRaises(s, name) == ~Contains(s, name)

\* Mutant of DbRemove: update_n_entries() is not called.
DbRemoveStale(s, name) ==
    [s EXCEPT !.database.data =
        [n \in (DOMAIN s.database.data) \ {name} |-> s.database.data[n]]]

\* Mutant of DbRemove: the whole mapping is deleted, not the one name.
DbRemoveAll(s, name) == UpdateNEntries([s EXCEPT !.database.data = EmptyData])

\* remove: del self.database['data'][name]; update_n_entries()
DbRemove(s, name) ==
    UpdateNEntries(
        [s EXCEPT !.database.data =
            [n \in (DOMAIN s.database.data) \ {name} |-> s.database.data[n]]])

\* Mutant of DbDrop: update_n_entries() is not called.
DbDropStale(s) == [s EXCEPT !.database.data = EmptyData]

\* drop: self.database['data'] = {}; update_n_entries()
DbDrop(s) == UpdateNEntries([s EXCEPT !.database.data = EmptyData])

\* Mutant of DbInit: the database is created without the class name.
DbInitUntagged(s) ==
    UpdateNEntries([s EXCEPT !.database = [class |-> "None", data |-> EmptyData]])

\* init: a fresh database tagged with the class name; update_n_entries()
DbInit(s) ==
    UpdateNEntries([s EXCEPT !.database = [class |-> s.class_, data |-> EmptyData]])

\* Mutant of LoadRaises: a class mismatch is reported as a missing file.
LoadRaisesAsMissing(fs, path, class_) ==
    IF fs[path] = NoFile THEN "FileNotFoundError"
    ELSE IF ~IsJson(fs[path]) THEN "JSONDecodeError"
    ELSE IF JsonLoad(fs[path]).class # class_ THEN "FileNotFoundError"
    ELSE "ok"

\* load: the exception it raises on this file, or "ok"
LoadRaises(fs, path, class_) ==
    IF fs[path] = NoFile THEN "FileNotFoundError"
    ELSE IF ~IsJson(fs[path]) THEN "JSONDecodeError"
    ELSE IF JsonLoad(fs[path]).class # class_ THEN "DatabaseClassMismatchError"
    ELSE "ok"

\* load: the dicts converted back to dataclass objects; update_n_entries()
DbLoad(s, fs) ==
    LET d == JsonLoad(fs[s.database_path])
    IN  UpdateNEntries(
            [s EXCEPT !.database =
                [class |-> d.class,
                 data  |-> [n \in DOMAIN d.data |-> FromValues(d.data[n])]]])

\* __init__ up to the call of load
Fresh(path, class_) ==
    [alive |-> TRUE, class_ |-> class_, database_path |-> path,
     database |-> NoDatabase, n_entries |-> -1]

\* ------------------------------------------------------------------ inputs, and the envelope of account new
Passwords == {"pw1", "pw2"}

\* os.urandom(16): one value stands for what it returns
Salts == {<<"bytes", 1>>}

\* Fernet.generate_key(): urlsafe_b64encode(os.urandom(32))
DataKeys == {<<"b64u", <<"bytes", 3>>>>}

\* str.encode()
Encode(s) == <<"utf8", s>>

\* bytes.decode()
Decode(b) == <<"ascii", b>>

\* PBKDF2HMAC(SHA256, length=32, salt, iterations=100000).derive(password)
Pbkdf2(password, salt) == <<"pbkdf2", password, salt>>

UrlsafeB64Encode(b) == <<"b64u", b>>

B64Encode(b) == <<"b64", b>>

\* user_key = base64.urlsafe_b64encode(key_derivation_function.derive(password.encode()))
UserKey(password, salt) == UrlsafeB64Encode(Pbkdf2(Encode(password), salt))

\* Fernet(key).encrypt(data)
FernetEncrypt(key, data) == <<"fernet", key, data>>

\* User(username, encrypted_data_key.decode(), base64.b64encode(salt).decode())
NewUser(username, password, salt, data_key) ==
    <<Str(username),
      Decode(FernetEncrypt(UserKey(password, salt), data_key)),
      Decode(B64Encode(salt))>>

Logins == {"u1"}

\* Site(login, password), as sites new builds it from what was typed
NewSite(login, password) == <<Str(login), Str(password)>>

SiteInputs == {NewSite(l, q) : l \in Logins, q \in Passwords}

UserInputs ==
    {NewUser(n, "pw1", salt, data_key) : n \in Names, salt \in Salts, data_key \in DataKeys}

Inputs(class_) == IF class_ = "Site" THEN SiteInputs ELSE UserInputs

\* ------------------------------------------------------------------ the store's operations
Init ==
    /\ store = [i \in Inst |-> NoStore]
    /\ files = [p \in Paths |-> NoFile]
    /\ pending = [i \in Inst |-> <<>>]
    /\ pc = [i \in Inst |-> "idle"]
    /\ session = [i \in Inst |-> "Locked"]
    /\ accounts = [u \in {} |-> <<>>]
    /\ last = NoCall

\* DataclassDatabase(path, class_): load, or init when the file is not found;
\* any other exception leaves the constructor and no object is bound.
Construct(i, path, class_) ==
    /\ ~store[i].alive
    /\ LET r == LoadRaises(files, path, class_)
           s == Fresh(path, class_)
       IN  /\ store' = [store EXCEPT ![i] =
                  IF r = "ok" THEN DbLoad(s, files)
                  ELSE IF r = "FileNotFoundError" THEN DbInit(s)
                  ELSE NoStore]
           /\ files' = IF r = "FileNotFoundError" THEN Save(files, DbInit(s)) ELSE files
           /\ last' = Call(i, "construct", path, class_,
                           IF r = "FileNotFoundError" THEN "ok" ELSE r, <<>>)

Get(i, name) ==
    /\ store[i].alive
    /\ last' = IF GetRaises(store[i], name)
               THEN Call(i, "get", name, store[i].class_, "DoesNotExistError", <<>>)
               ELSE Call(i, "get", name, store[i].class_, "ok", GetValue(store[i], name))
    /\ UNCHANGED <<store, files>>

New(i, name, instance) ==
    /\ store[i].alive
    /\ IF NewRaises(store[i], name)
       THEN /\ last' = Call(i, "new", name, store[i].class_, "AlreadyExistsError", instance)
            /\ UNCHANGED <<store, files>>
       ELSE /\ store' = [store EXCEPT ![i] = DbNew(store[i], name, instance)]
            /\ files' = Save(files, DbNew(store[i], name, instance))
            /\ last' = Call(i, "new", name, store[i].class_, "ok", instance)

Remove(i, name) ==
    /\ store[i].alive
    /\ IF RemoveRaises(store[i], name)
       THEN /\ last' = Call(i, "remove", name, store[i].class_, "DoesNotExistError", <<>>)
            /\ UNCHANGED <<store, files>>
       ELSE /\ store' = [store EXCEPT ![i] = DbRemove(store[i], name)]
            /\ files' = Save(files, DbRemove(store[i], name))
            /\ last' = Call(i, "remove", name, store[i].class_, "ok", <<>>)

Drop(i) ==
    /\ store[i].alive
    /\ store' = [store EXCEPT ![i] = DbDrop(store[i])]
    /\ files' = Save(files, DbDrop(store[i]))
    /\ last' = Call(i, "drop", "", store[i].class_, "ok", <<>>)

\* The process that holds the object exits.
Exit(i) ==
    /\ store[i].alive
    /\ store' = [store EXCEPT ![i] = NoStore]
    /\ last' = Call(i, "exit", "", "None", "ok", <<>>)
    /\ UNCHANGED files

\* One process at a time holds a store (the program is single-process, and
\* each invocation builds one store); the store is of either class.
Next ==
    \/ \E i \in Inst, class_ \in Classes :
           /\ \A j \in Inst : ~store[j].alive
           /\ Construct(i, "db", class_)
           /\ UNCHANGED <<cliVars, pending>>
    \/ \E i \in Inst, name \in Names :
           Get(i, name) /\ UNCHANGED <<cliVars, pending>>
    \/ \E i \in Inst, name \in Names :
           \E instance \in Inputs(store[i].class_) :
               New(i, name, instance) /\ UNCHANGED <<cliVars, pending>>
    \/ \E i \in Inst, name \in Names :
           Remove(i, name) /\ UNCHANGED <<cliVars, pending>>
    \/ \E i \in Inst :
           Drop(i) /\ UNCHANGED <<cliVars, pending>>
    \/ \E i \in Inst :
           Exit(i) /\ UNCHANGED <<cliVars, pending>>

Spec == Init /\ [][Next]_vars

\* ------------------------------------------------------------------ the commands
\* The label of a command of invocation i.
Cmd(i, op, name, result, value, echo) ==
    [inst |-> i, op |-> op, name |-> name, class_ |-> store[i].class_,
     result |-> result, value |-> value, before |-> store[i].n_entries,
     echo |-> echo]

Finish(i) == pc' = [pc EXCEPT ![i] = "done"]

\* The sites group: site_database = DataclassDatabase('sites', Site).
\* An exception of the constructor ends the invocation.
SitesGroup(i) ==
    /\ pc[i] = "idle"
    /\ Construct(i, "sites", "Site")
    /\ pc' = [pc EXCEPT ![i] = IF last'.result = "ok" THEN "sites" ELSE "idle"]
    /\ session' = [session EXCEPT ![i] = "Locked"]
    /\ UNCHANGED <<accounts, pending>>

\* sites new
SitesNew(i, name, login, password) ==
    /\ pc[i] = "sites"
    /\ LET site == NewSite(login, password)
       IN  IF NewRaises(store[i], name)
           THEN /\ last' = Cmd(i, "sites new", name, "AlreadyExistsError", site,
                               << <<"Error: already exists", name>> >>)
                /\ UNCHANGED <<store, files>>
           ELSE /\ store' = [store EXCEPT ![i] = DbNew(store[i], name, site)]
                /\ files' = Save(files, DbNew(store[i], name, site))
                /\ last' = Cmd(i, "sites new", name, "ok", site,
                               << <<"Added site", name>> >>)
    /\ Finish(i)
    /\ UNCHANGED <<session, accounts, pending>>

\* sites remove; yes is the answer to the confirmation (abort_if_false)
SitesRemove(i, name, yes) ==
    /\ pc[i] = "sites"
    /\ IF ~yes
       THEN /\ last' = Cmd(i, "sites remove", name, "Abort", <<>>, <<>>)
            /\ UNCHANGED <<store, files>>
       ELSE IF RemoveRaises(store[i], name)
       THEN /\ last' = Cmd(i, "sites remove", name, "DoesNotExistError", <<>>,
                           << <<"Error: does not exist", name>> >>)
            /\ UNCHANGED <<store, files>>
       ELSE /\ store' = [store EXCEPT ![i] = DbRemove(store[i], name)]
            /\ files' = Save(files, DbRemove(store[i], name))
            /\ last' = Cmd(i, "sites remove", name, "ok", <<>>,
                           << <<"Removed the site", name>> >>)
    /\ Finish(i)
    /\ UNCHANGED <<session, accounts, pending>>

\* sites get; value is what clipboard.copy was given
SitesGet(i, name, copy_login) ==
    /\ pc[i] = "sites"
    /\ last' =
          IF GetRaises(store[i], name)
          THEN Cmd(i, "sites get", name, "DoesNotExistError", <<>>,
                   << <<"Error: does not exist", name>> >>)
          ELSE IF copy_login
          THEN Cmd(i, "sites get", name, "ok",
                   Field("Site", GetValue(store[i], name), "login"),
                   << <<"Copied login to clipboard.", name>> >>)
          ELSE Cmd(i, "sites get", name, "ok",
                   Field("Site", GetValue(store[i], name), "password"),
                   << <<"Copied password to clipboard.", name>> >>)
    /\ Finish(i)
    /\ UNCHANGED <<store, files, session, accounts, pending>>

\* sites drop
SitesDrop(i, yes) ==
    /\ pc[i] = "sites"
    /\ IF ~yes
       THEN /\ last' = Cmd(i, "sites drop", "", "Abort", <<>>, <<>>)
            /\ UNCHANGED <<store, files>>
       ELSE /\ store' = [store EXCEPT ![i] = DbDrop(store[i])]
            /\ files' = Save(files, DbDrop(store[i]))
            /\ last' = Cmd(i, "sites drop", "", "ok", <<>>,
                           << <<"Database dropped.", "">> >>)
    /\ Finish(i)
    /\ UNCHANGED <<session, accounts, pending>>

\* __iter__, as ls uses it: one line per record (here in the order of the
\* names; the dict's own order is the order of insertion).
LsLines(s) ==
    LET names == SortNames(DOMAIN s.database.data)
    IN  [k \in 1..Len(names) |->
            <<"Name, Login, Password", names[k],
              Field("Site", s.database.data[names[k]], "login"),
              Field("Site", s.database.data[names[k]], "password")>>]

\* sites ls; value is the count printed
SitesLs(i) ==
    /\ pc[i] = "sites"
    /\ last' =
          IF store[i].n_entries = 0
          THEN Cmd(i, "sites ls", "", "ok", <<0>>, << <<"0 sites in database.", "">> >>)
          ELSE Cmd(i, "sites ls", "", "ok", <<store[i].n_entries>>,
                   << <<"sites in database:", "">> >> \o LsLines(store[i]))
    /\ Finish(i)
    /\ UNCHANGED <<store, files, session, accounts, pending>>

\* The account group: user_database = DataclassDatabase('users', User).
AccountGroup(i) ==
    /\ pc[i] = "idle"
    /\ Construct(i, "users", "User")
    /\ pc' = [pc EXCEPT ![i] = IF last'.result = "ok" THEN "account" ELSE "idle"]
    /\ session' = [session EXCEPT ![i] = "Locked"]
    /\ UNCHANGED <<accounts, pending>>

\* Mutant of UsernameTaken: the callback accepts every username.
UsernameTakenNever(s, username) == FALSE

\* validate_username: the guard of its raise
UsernameTaken(s, username) == Contains(s, username)

\* account new: validate_username, validate_password, then the command.
\* salt and data_key are what os.urandom and Fernet.generate_key return.
\* A click.BadParameter of a callback ends the command with click's message;
\* an AlreadyExistsError of user_database.new is not caught.
AccountNew(i, username, password, confirm_password, salt, data_key) ==
    /\ pc[i] = "account"
    /\ LET user == NewUser(username, password, salt, data_key)
       IN  IF UsernameTaken(store[i], username)
           THEN /\ last' = Cmd(i, "account new", username, "BadParameter", <<>>,
                               << <<"Error: Invalid value: already exists", username>> >>)
                /\ UNCHANGED <<store, files, accounts>>
           ELSE IF password # confirm_password
           THEN /\ last' = Cmd(i, "account new", username, "BadParameter", <<>>,
                               << <<"Error: Invalid value: Passwords not identical.",
                                    username>> >>)
                /\ UNCHANGED <<store, files, accounts>>
           ELSE IF NewRaises(store[i], username)
           THEN /\ last' = Cmd(i, "account new", username, "AlreadyExistsError",
                               <<>>, <<>>)
                /\ UNCHANGED <<store, files, accounts>>
           ELSE /\ store' = [store EXCEPT ![i] = DbNew(store[i], username, user)]
                /\ files' = Save(files, DbNew(store[i], username, user))
                /\ accounts' =
                      [u \in (DOMAIN accounts) \cup {username} |->
                          IF u = username
                          THEN [password |-> password, data_key |-> data_key,
                                user |-> user]
                          ELSE accounts[u]]
                /\ last' = Cmd(i, "account new", username, "ok", user,
                               << <<"Created a new account", username>> >>)
    /\ Finish(i)
    /\ UNCHANGED <<session, pending>>

\* account sign-in: pass
SignIn(i) ==
    /\ pc[i] = "account"
    /\ last' = Cmd(i, "account sign-in", "", "ok", <<>>, <<>>)
    /\ Finish(i)
    /\ UNCHANGED <<store, files, session, accounts, pending>>

\* account sign-out: pass
SignOut(i) ==
    /\ pc[i] = "account"
    /\ last' = Cmd(i, "account sign-out", "", "ok", <<>>, <<>>)
    /\ Finish(i)
    /\ UNCHANGED <<store, files, session, accounts, pending>>

\* The invocation's process ends.
CliExit(i) ==
    /\ pc[i] = "done"
    /\ Exit(i)
    /\ pc' = [pc EXCEPT ![i] = "idle"]
    /\ UNCHANGED <<session, accounts, pending>>

\* One invocation at a time: each runs its group and one command to the end.
NoneRunning == \A j \in Inst : pc[j] = "idle"

CliNext ==
    \/ \E i \in Inst : NoneRunning /\ SitesGroup(i)
    \/ \E i \in Inst, name \in Names, login \in Logins, password \in Passwords :
           SitesNew(i, name, login, password)
    \/ \E i \in Inst, name \in Names, yes \in BOOLEAN : SitesRemove(i, name, yes)
    \/ \E i \in Inst, name \in Names, copy_login \in BOOLEAN :
           SitesGet(i, name, copy_login)
    \/ \E i \in Inst, yes \in BOOLEAN : SitesDrop(i, yes)
    \/ \E i \in Inst : SitesLs(i)
    \/ \E i \in Inst : NoneRunning /\ AccountGroup(i)
    \/ \E i \in Inst, username \in Names, password \in Passwords,
          confirm_password \in Passwords, salt \in Salts, data_key \in DataKeys :
           AccountNew(i, username, password, confirm_password, salt, data_key)
    \/ \E i \in Inst : SignIn(i)
    \/ \E i \in Inst : SignOut(i)
    \/ \E i \in Inst : CliExit(i)

CliSpec == Init /\ [][CliNext]_vars

\* ------------------------------------------------------------------ save, step by step
\* The same operations with save taken apart: open(path, 'w') truncates the
\* file in place, json.dump then writes the document piece by piece, and the
\* process may die between any two of these steps.

\* open(self.database_path, 'w')
OpenW(fs, s) == [fs EXCEPT ![s.database_path] = <<>>]

\* The operation of process i has changed the object to s and calls save.
BeginSave(i, s) ==
    /\ store' = [store EXCEPT ![i] = s]
    /\ files' = OpenW(files, s)
    /\ pending' = [pending EXCEPT ![i] = JsonDump(s.database, s.class_)]

Idle(i) == store[i].alive /\ pending[i] = <<>>

CrashConstruct(i, path, class_) ==
    /\ ~store[i].alive
    /\ LET r == LoadRaises(files, path, class_)
           s == Fresh(path, class_)
       IN  /\ IF r = "FileNotFoundError" THEN BeginSave(i, DbInit(s))
              ELSE /\ store' = [store EXCEPT ![i] =
                          IF r = "ok" THEN DbLoad(s, files) ELSE NoStore]
                   /\ UNCHANGED <<files, pending>>
           /\ last' = Call(i, "construct", path, class_,
                           IF r = "FileNotFoundError" THEN "ok" ELSE r, <<>>)
    /\ UNCHANGED cliVars

CrashNew(i, name, instance) ==
    /\ Idle(i)
    /\ IF NewRaises(store[i], name)
       THEN /\ last' = Call(i, "new", name, store[i].class_, "AlreadyExistsError", instance)
            /\ UNCHANGED <<store, files, pending>>
       ELSE /\ BeginSave(i, DbNew(store[i], name, instance))
            /\ last' = Call(i, "new", name, store[i].class_, "ok", instance)
    /\ UNCHANGED cliVars

CrashRemove(i, name) ==
    /\ Idle(i)
    /\ IF RemoveRaises(store[i], name)
       THEN /\ last' = Call(i, "remove", name, store[i].class_, "DoesNotExistError", <<>>)
            /\ UNCHANGED <<store, files, pending>>
       ELSE /\ BeginSave(i, DbRemove(store[i], name))
            /\ last' = Call(i, "remove", name, store[i].class_, "ok", <<>>)
    /\ UNCHANGED cliVars

CrashDrop(i) ==
    /\ Idle(i)
    /\ BeginSave(i, DbDrop(store[i]))
    /\ last' = Call(i, "drop", "", store[i].class_, "ok", <<>>)
    /\ UNCHANGED cliVars

\* json.dump writes the next piece of the document.
Write(i) ==
    /\ store[i].alive
    /\ pending[i] # <<>>
    /\ files' = [files EXCEPT ![store[i].database_path] = Append(@, Head(pending[i]))]
    /\ pending' = [pending EXCEPT ![i] = Tail(@)]
    /\ UNCHANGED <<store, last, cliVars>>

\* The process dies (or, when it is not saving, ends).
Crash(i) ==
    /\ store[i].alive
    /\ store' = [store EXCEPT ![i] = NoStore]
    /\ pending' = [pending EXCEPT ![i] = <<>>]
    /\ last' = Call(i, IF pending[i] # <<>> THEN "crash" ELSE "exit", "", "None",
                    "ok", <<>>)
    /\ UNCHANGED <<files, cliVars>>

CrashNext ==
    \/ \E i \in Inst, class_ \in Classes :
           (\A j \in Inst : ~store[j].alive) /\ CrashConstruct(i, "db", class_)
    \/ \E i \in Inst, name \in Names :
           \E instance \in Inputs(store[i].class_) : CrashNew(i, name, instance)
    \/ \E i \in Inst, name \in Names : CrashRemove(i, name)
    \/ \E i \in Inst : CrashDrop(i)
    \/ \E i \in Inst : Write(i)
    \/ \E i \in Inst : Crash(i)

CrashSpec == Init /\ [][CrashNext]_vars

\* ------------------------------------------------------------------ a command killed in save
\* sites new whose process dies in save, after open(path, 'w') has truncated
\* the file and before json.dump has written anything.
SitesNewKilled(i, name, login, password) ==
    /\ pc[i] = "sites"
    /\ ~NewRaises(store[i], name)
    /\ files' = OpenW(files, DbNew(store[i], name, NewSite(login, password)))
    /\ store' = [store EXCEPT ![i] = NoStore]
    /\ pc' = [pc EXCEPT ![i] = "idle"]
    /\ last' = Cmd(i, "sites new", name, "killed", <<>>, <<>>)
    /\ UNCHANGED <<session, accounts, pending>>

ErrNext ==
    \/ CliNext
    \/ \E i \in Inst, name \in Names, login \in Logins, password \in Passwords :
           SitesNewKilled(i, name, login, password)

ErrSpec == Init /\ [][ErrNext]_vars

\* ------------------------------------------------------------------ invocations that overlap
\* Nothing in the program locks the file: a second invocation may build its
\* store while the first has built its own and not yet run its command.
\* Two invocations overlap; each runs again after it has ended.
Racers == {1, 2}

RaceNext ==
    \/ \E i \in Racers : SitesGroup(i)
    \/ \E i \in Racers, name \in Names, login \in Logins, password \in Passwords :
           SitesNew(i, name, login, password)
    \/ \E i \in Racers, name \in Names, yes \in BOOLEAN : SitesRemove(i, name, yes)
    \/ \E i \in Racers, yes \in BOOLEAN : SitesDrop(i, yes)
    \/ \E i \in Racers : CliExit(i)

RaceSpec == Init /\ [][RaceNext]_vars

\* ------------------------------------------------------------------ claims on the store
Data(i) == store[i].database.data

\* A store object as a later construction on its file would build it.
Reloaded(i) == DbLoad(Fresh(store[i].database_path, store[i].class_), files)

\* C1 (as claimed): whenever the backing file holds what a store saved, a new
\* store constructed on the same file with the same class holds exactly the
\* store's mapping, every field of every record as it was inserted, and saving
\* that new store writes the same file again.
C1_RoundTrip ==
    \A i \in Inst :
        (/\ store[i].alive
         /\ files[store[i].database_path] = JsonDump(store[i].database, store[i].class_))
        => /\ Reloaded(i).database = store[i].database
           /\ JsonDump(Reloaded(i).database, store[i].class_)
                  = files[store[i].database_path]

\* C3: new(name, instance) on a name already present raises AlreadyExistsError
\* and changes neither the object (its records, its n_entries) nor the file.
C3_NewOnExistingChangesNothing ==
    [][\A i \in Inst, n \in Names :
          (/\ last'.op = "new" /\ last'.inst = i /\ last'.name = n
           /\ store[i].alive /\ n \in DOMAIN Data(i))
          => /\ last'.result = "AlreadyExistsError"
             /\ store' = store
             /\ files' = files]_vars

\* C3 witness: a new was refused for a name whose stored record differs from
\* the one offered, in a store that holds another record too.
C3_Witness ==
    /\ last.op = "new" /\ last.result = "AlreadyExistsError"
    /\ store[last.inst].alive
    /\ Data(last.inst)[last.name] # last.value
    /\ store[last.inst].n_entries = 2

\* C4: within one store object, a successful new(n, r) makes get(n) return r,
\* a successful remove(n) makes get(n) raise DoesNotExistError, get answers
\* from the mapping, and no step other than a successful new(n), remove(n) or
\* a drop of that object changes whether n is stored or what is stored for it.
C4_GetAfterNewAndRemove ==
    [][\A i \in Inst, n \in Names :
          (store[i].alive /\ store'[i].alive)
          => LET mine  == last'.inst = i /\ last'.name = n /\ last' # last
                 newOk == mine /\ last'.op = "new" /\ last'.result = "ok"
                 remOk == mine /\ last'.op = "remove" /\ last'.result = "ok"
                 drop  == last'.inst = i /\ last'.op = "drop"
             IN  /\ newOk => n \in DOMAIN Data(i)' /\ Data(i)'[n] = last'.value
                 /\ remOk => n \notin DOMAIN Data(i)'
                 /\ (last'.inst = i /\ last'.name = n /\ last'.op = "get")
                    => IF n \in DOMAIN Data(i)
                       THEN last'.result = "ok" /\ last'.value = Data(i)[n]
                       ELSE last'.result = "DoesNotExistError"
                 /\ ~(newOk \/ remOk \/ drop)
                    => /\ (n \in DOMAIN Data(i)') = (n \in DOMAIN Data(i))
                       /\ n \in DOMAIN Data(i) => Data(i)'[n] = Data(i)[n]]_vars

\* C4 witness: a name was removed from a store that still holds the record of
\* another name.
C4_Witness ==
    /\ last.op = "remove" /\ last.result = "ok"
    /\ store[last.inst].alive
    /\ last.name \notin DOMAIN Data(last.inst)
    /\ store[last.inst].n_entries = 1

\* C5: constructing a store of one class on a file tagged with another class
\* raises DatabaseClassMismatchError: no object is built from the file's
\* records, the file is not re-initialised, and it is left as it was.
C5_ClassMismatchIsFatal ==
    [][\A i \in Inst, p \in Paths :
          (/\ last'.op = "construct" /\ last'.inst = i /\ last'.name = p
           /\ ~store[i].alive
           /\ files[p] # NoFile /\ IsJson(files[p])
           /\ JsonLoad(files[p]).class # last'.class_)
          => /\ last'.result = "DatabaseClassMismatchError"
             /\ ~store'[i].alive
             /\ files' = files]_vars

\* C5 witness: a construction ended in DatabaseClassMismatchError on a file
\* that holds records.
C5_Witness ==
    /\ last.op = "construct" /\ last.result = "DatabaseClassMismatchError"
    /\ IsJson(files[last.name])
    /\ JsonLoad(files[last.name]).class # last.class_
    /\ DOMAIN JsonLoad(files[last.name]).data # {}

\* C9: get(n) and remove(n) on an absent name raise DoesNotExistError and
\* change neither the object nor the file; a successful get changes neither.
C9_AbsentNameChangesNothing ==
    [][\A i \in Inst, n \in Names :
          (/\ last'.inst = i /\ last'.name = n /\ store[i].alive
           /\ last'.op \in {"get", "remove"})
          => /\ n \notin DOMAIN Data(i)
                => /\ last'.result = "DoesNotExistError"
                   /\ store' = store
                   /\ files' = files
             /\ last'.op = "get" => store' = store /\ files' = files]_vars

\* C9 witness: a remove was refused in a store that holds a record.
C9_Witness ==
    /\ last.op = "remove" /\ last.result = "DoesNotExistError"
    /\ store[last.inst].alive
    /\ store[last.inst].n_entries = 1

\* C10: drop always succeeds and leaves no record, n_entries = 0, the class
\* tag as it was and a file holding that tag and an empty mapping; a drop that
\* follows a drop changes nothing.
C10_DropIsTotalAndIdempotent ==
    [][\A i \in Inst :
          (last'.op = "drop" /\ last'.inst = i /\ store[i].alive)
          => /\ last'.result = "ok"
             /\ store'[i].alive
             /\ Data(i)' = EmptyData
             /\ store'[i].n_entries = 0
             /\ store'[i].database.class = store[i].database.class
             /\ files'[store[i].database_path]
                    = << <<"{">>, <<"class", store[i].database.class>>, <<"}">> >>
             /\ \A p \in Paths \ {store[i].database_path} : files'[p] = files[p]
             /\ (last.op = "drop" /\ last.inst = i)
                => store' = store /\ files' = files]_vars

\* C10 witness: a drop emptied a store that held two records.
C10_Witness ==
    /\ last.op = "drop" /\ last.before = 2
    /\ store[last.inst].n_entries = 0

\* C11: constructing a store on a path with no file gives an empty store
\* tagged with the class name and writes it at once; on a file with the
\* matching tag it loads the file's records and leaves the file as it is; the
\* file exists, complete, after every construction that returns.
C11_Construction ==
    [][\A i \in Inst, p \in Paths :
          (/\ last'.op = "construct" /\ last'.inst = i /\ last'.name = p
           /\ ~store[i].alive)
          => /\ files[p] = NoFile
                => /\ last'.result = "ok"
                   /\ store'[i].alive
                   /\ store'[i].database = [class |-> last'.class_, data |-> EmptyData]
                   /\ store'[i].n_entries = 0
                   /\ files'[p] = << <<"{">>, <<"class", last'.class_>>, <<"}">> >>
             /\ (/\ files[p] # NoFile /\ IsJson(files[p])
                 /\ JsonLoad(files[p]).class = last'.class_)
                => /\ last'.result = "ok"
                   /\ store'[i].alive
                   /\ store'[i].database.class = last'.class_
                   /\ DOMAIN Data(i)' = DOMAIN JsonLoad(files[p]).data
                   /\ files' = files
             /\ store'[i].alive
                => /\ store'[i].database_path = p /\ store'[i].class_ = last'.class_
                   /\ IsJson(files'[p])
                   /\ JsonLoad(files'[p]).class = last'.class_]_vars

\* C11 witness: a construction loaded a file that holds two records.
C11_Witness ==
    /\ last.op = "construct" /\ last.result = "ok"
    /\ store[last.inst].alive
    /\ store[last.inst].n_entries = 2
    /\ DOMAIN JsonLoad(files[last.name]).data = DOMAIN Data(last.inst)

\* ------------------------------------------------------------------ unlocking (the spec's authenticate)
\* The value stored under a key of a JSON object.
Stored(pairs, key) == pairs[CHOOSE k \in 1..Len(pairs) : pairs[k][1] = key][2]

\* str.encode(): the bytes a decoded string came from, or the string's bytes
StrToBytes(s) == IF s[1] = "ascii" THEN s[2] ELSE Encode(s[2])

InvalidToken == <<"InvalidToken">>

\* base64.b64decode
B64Decode(b) == IF b[1] = "b64" THEN b[2] ELSE <<"binascii.Error">>

\* Fernet(key).decrypt(token): fails closed on another key or on no token
FernetDecrypt(key, token) ==
    IF token[1] = "fernet" /\ token[2] = key THEN token[3] ELSE InvalidToken

\* authenticate: derive the key from the passphrase and the stored salt,
\* unwrap the stored wrapped data key.
Unwrap(pairs, password) ==
    FernetDecrypt(UserKey(password, B64Decode(StrToBytes(Stored(pairs, "salt")))),
                  StrToBytes(Stored(pairs, "encrypted_data_key")))

\* ------------------------------------------------------------------ claims on the commands
SiteCommands == {"sites new", "sites get", "sites remove", "sites ls", "sites drop"}

\* C6 (as claimed): a record command runs only in the Unlocked state.
C6_RecordCommandsNeedUnlocked ==
    (last.op \in SiteCommands /\ last.result # "Abort")
        => session[last.inst] = "Unlocked"

\* A stored string that is a Fernet token.
IsCiphertext(v) == v[1] = "ascii" /\ v[2][1] = "fernet"

\* C7 (as claimed): the password of every record of the sites file, and of
\* every record a sites store holds, is a ciphertext.
C7_PasswordsEncryptedAtRest ==
    /\ IsJson(files["sites"])
       => \A n \in DOMAIN JsonLoad(files["sites"]).data :
              IsCiphertext(Stored(JsonLoad(files["sites"]).data[n], "password"))
    /\ \A i \in Inst :
          (store[i].alive /\ store[i].class_ = "Site")
          => \A n \in DOMAIN Data(i) :
                 IsCiphertext(Field("Site", Data(i)[n], "password"))

\* C8 (as claimed): for every account ever created, the users file holds its
\* salt and wrapped data key as they were written at creation, the wrapped key
\* unwraps to the account's data key under the passphrase it was created with
\* and fails to unwrap under any other.
C8_EnvelopeHolds ==
    IsJson(files["users"])
    => \A u \in DOMAIN accounts :
           /\ u \in DOMAIN JsonLoad(files["users"]).data
           /\ LET pairs == JsonLoad(files["users"]).data[u]
              IN  /\ Stored(pairs, "salt") = Field("User", accounts[u].user, "salt")
                  /\ Stored(pairs, "encrypted_data_key")
                         = Field("User", accounts[u].user, "encrypted_data_key")
                  /\ Unwrap(pairs, accounts[u].password) = accounts[u].data_key
                  /\ \A q \in Passwords \ {accounts[u].password} :
                         Unwrap(pairs, q) = InvalidToken

\* No two entries of a document have the same name.
UniqueNames(text) ==
    IsJson(text)
    => \A j, k \in 3..(Len(text) - 1) : text[j][2] = text[k][2] => j = k

C14_EntryCount ==
    /\ \A i \in Inst :
          store[i].alive => store[i].n_entries = Cardinality(DOMAIN Data(i))
    /\ last.op = "sites ls" => last.value = <<Len(last.echo) - 1>>

\* C14 witness: ls printed a count of two and listed two entries, on a store
\* that earlier invocations filled.
C14_Witness ==
    /\ last.op = "sites ls" /\ last.value = <<2>> /\ Len(last.echo) = 3
    /\ store[last.inst].n_entries = 2

\* The passwords that can be stored or typed, as the values the program holds.
SecretValues == {Str(q) : q \in Passwords}

\* C16 (as claimed): no command but a successful sites get puts a password in
\* its output; sites get hands the clipboard the requested field of the named
\* record; the lines of ls hold names and logins only.
C16_OnlyGetDisclosesPasswords ==
    /\ \A k \in 1..Len(last.echo) :
          \A m \in 3..Len(last.echo[k]) : last.echo[k][m] \notin SecretValues
    /\ (last.op = "sites get" /\ last.result = "ok" /\ store[last.inst].alive)
       => \/ /\ last.echo[1][1] = "Copied login to clipboard."
             /\ last.value = Field("Site", Data(last.inst)[last.name], "login")
          \/ /\ last.echo[1][1] = "Copied password to clipboard."
             /\ last.value = Field("Site", Data(last.inst)[last.name], "password")

\* The exceptions that leave the store: DoesNotExistError (NotFound),
\* AlreadyExistsError (AlreadyExists), DatabaseClassMismatchError
\* (SchemaMismatch), and json.load's error on a file it cannot read (IOFailure).
StoreErrors ==
    {"DoesNotExistError", "AlreadyExistsError", "DatabaseClassMismatchError",
     "JSONDecodeError"}

\* C13 (as claimed): every command that ends with an error of the store
\* prints a message for the user, so none of these errors leaves the command
\* unhandled, and such a command leaves the stores and the files unchanged.
C13_StoreErrorsAreReported ==
    [][last'.result \in StoreErrors
       => /\ last'.echo # <<>>
          /\ store' = store /\ files' = files]_vars

\* ------------------------------------------------------------------ claims on overlapping invocations
MutatingCommands == {"sites new", "sites remove", "sites drop"}

C2_CrashLeavesCompleteFile ==
    last.op = "crash"
        => \A p \in Paths :
               /\ files[p] = NoFile \/ IsJson(files[p])
               /\ \E class_ \in Classes :
                      LoadRaises(files, p, class_) \in {"ok", "FileNotFoundError"}

====
